---- MODULE Spec2Model ----
(***************************************************************************)
(* Model of src/scraper.py: the Selenium crawl controller of the AUC       *)
(* Digital Collections scraper (AUCDigitalCollectionsSeleniumScraper and   *)
(* main).  Python dicts are functions with a finite set of string keys,    *)
(* lists are sequences, None-able arguments are sequences of length 0      *)
(* (None) or 1.  Python strings are TLA+ strings; the string methods the   *)
(* code uses are defined character by character below.                     *)
(***************************************************************************)
EXTENDS Integers, Sequences, FiniteSets, TLC

(* ------------------------------------------------------------------ *)
(* Bounds of the model                                                 *)
(* ------------------------------------------------------------------ *)
\* Highest page number the command line is given.
MaxPage == 2
\* Highest --max-retries the command line is given.
MaxRetriesBound == 1

(* ------------------------------------------------------------------ *)
(* Program constants                                                   *)
(* ------------------------------------------------------------------ *)
BASE_URL == "https://digitalcollections.aucegypt.edu"
SEARCH_URL == BASE_URL \o "/digital/search"
MAX_RECORDS_TO_SCRAPE == 3
RETRY_DELAY == 2

(* ------------------------------------------------------------------ *)
(* Python values                                                       *)
(* ------------------------------------------------------------------ *)
None == <<>>
Some(x) == <<x>>
IsNone(o) == o = <<>>
\* The value of an argument that is not None.
Val(o) == o[1]

\* {} : the dict with no key.
EmptyDict == [k \in {} |-> ""]
\* len(d)
DictLen(d) == Cardinality(DOMAIN d)
\* d[k] = v
Put(d, k, v) == [x \in DOMAIN d \cup {k} |-> IF x = k THEN v ELSE d[x]]

(* ------------------------------------------------------------------ *)
(* Python string methods                                               *)
(* ------------------------------------------------------------------ *)
\* s[i] for a 1-based index.
Char(s, i) == SubSeq(s, i, i)

\* s.startswith(p)
StartsWith(s, p) == Len(p) <= Len(s) /\ SubSeq(s, 1, Len(p)) = p

\* s.endswith(p)
EndsWith(s, p) == Len(p) <= Len(s) /\ SubSeq(s, Len(s) - Len(p) + 1, Len(s)) = p

\* p in s
Contains(s, p) == \E i \in 1..(Len(s) - Len(p) + 1) : SubSeq(s, i, i + Len(p) - 1) = p

IsSpace(c) == c \in {" ", "\t", "\n", "\r"}

RECURSIVE LStrip(_)
LStrip(s) == IF Len(s) > 0 /\ IsSpace(Char(s, 1)) THEN LStrip(Tail(s)) ELSE s

RECURSIVE RStrip(_)
RStrip(s) ==
  IF Len(s) > 0 /\ IsSpace(Char(s, Len(s))) THEN RStrip(SubSeq(s, 1, Len(s) - 1)) ELSE s

\* s.strip()
Strip(s) == RStrip(LStrip(s))

\* s.rstrip(':') : every trailing colon goes.
RECURSIVE RStripColon(_)
RStripColon(s) ==
  IF Len(s) > 0 /\ Char(s, Len(s)) = ":" THEN RStripColon(SubSeq(s, 1, Len(s) - 1)) ELSE s

Upper == <<"A","B","C","D","E","F","G","H","I","J","K","L","M",
           "N","O","P","Q","R","S","T","U","V","W","X","Y","Z">>
Lower == <<"a","b","c","d","e","f","g","h","i","j","k","l","m",
           "n","o","p","q","r","s","t","u","v","w","x","y","z">>

LowerChar(c) ==
  IF \E i \in 1..26 : Upper[i] = c THEN Lower[CHOOSE i \in 1..26 : Upper[i] = c] ELSE c

\* s.lower()
RECURSIVE ToLower(_)
ToLower(s) == IF Len(s) = 0 THEN "" ELSE LowerChar(Char(s, 1)) \o ToLower(Tail(s))

\* [f(x) for x in seq if keep(x)] for the list comprehension of lines 487 and 560:
\* [line.strip() for line in text.split('\n') if line.strip()]
RECURSIVE StripLines(_)
StripLines(raw) ==
  IF raw = <<>> THEN <<>>
  ELSE IF Strip(Head(raw)) = "" THEN StripLines(Tail(raw))
       ELSE <<Strip(Head(raw))>> \o StripLines(Tail(raw))

(* ------------------------------------------------------------------ *)
(* A rendered detail page, as the browser shows it to one attempt      *)
(* ------------------------------------------------------------------ *)
\* load     : wait_for_page_load() found the root element in time
\* shape    : what window.__INITIAL_STATE__ holds
\*              "absent"    the script pattern does not match
\*              "malformed" json.loads raises (caught, {} is returned)
\*              "noitem"    the state has no 'item'
\*              "noparent"  item.item has no 'parent'
\*              "nofields"  the parent has no 'fields'
\*              "badtype"   a level of the walk has a type the walk raises on
\*              "ok"        item.item.parent.fields is the list `fields`
\* fields   : the entries of parent['fields'], dicts with 'key' and 'value'
\* sel_imgs : src of the <img> elements the image selectors match, in order
\* all_imgs : every <img> of the page: src, width, height (0: not given)
\* section  : None, or the lines of the text of the Item Description section
\* obj_desc : None, or the text of the Object Description section
\* body     : the lines of the text of <body>
\* pairs    : label element text and following sibling text (None: no sibling)

(* ------------------------------------------------------------------ *)
(* is_valid_image_url, extract_image_url                               *)
(* ------------------------------------------------------------------ *)
skip_patterns ==
  {"logo", "icon", "favicon", "button", "arrow", "bg_", "background",
   "sprite", "thumb_", "avatar", "profile"}

image_indicators ==
  {"iiif", "digital", "collection", "item", "full", "image",
   ".jpg", ".jpeg", ".png", ".gif", ".webp", ".tiff"}

is_valid_image_url(url) ==
  IF url = "" THEN FALSE
  ELSE LET url_lower == ToLower(url) IN
       IF \E pattern \in skip_patterns : Contains(url_lower, pattern) THEN FALSE
       ELSE \E indicator \in image_indicators : Contains(url_lower, indicator)

\* if src.startswith('/'): src = BASE_URL + src
Absolute(src) == IF StartsWith(src, "/") THEN BASE_URL \o src ELSE src

\* The first loop of extract_image_url: the first valid src among the matches.
RECURSIVE FirstSelected(_)
FirstSelected(imgs) ==
  IF imgs = <<>> THEN None
  ELSE IF Head(imgs) # "" /\ is_valid_image_url(Head(imgs)) THEN Some(Absolute(Head(imgs)))
       ELSE FirstSelected(Tail(imgs))

\* The fallback loop: a valid src whose given dimensions both exceed 100.
RECURSIVE FirstLarge(_)
FirstLarge(imgs) ==
  IF imgs = <<>> THEN None
  ELSE LET img == Head(imgs) IN
       IF /\ img.src # "" /\ is_valid_image_url(img.src)
          /\ (img.width = 0 \/ img.width > 100)
          /\ (img.height = 0 \/ img.height > 100)
       THEN Some(Absolute(img.src))
       ELSE FirstLarge(Tail(imgs))

extract_image_url(view) ==
  IF ~IsNone(FirstSelected(view.sel_imgs)) THEN FirstSelected(view.sel_imgs)
  ELSE FirstLarge(view.all_imgs)

\* image_url = self.extract_image_url(); if image_url: record['Image URL'] = image_url
WithImage(view, record) ==
  IF IsNone(extract_image_url(view)) THEN record
  ELSE Put(record, "Image URL", Val(extract_image_url(view)))

(* ------------------------------------------------------------------ *)
(* Strategy 1: the embedded state                                      *)
(* ------------------------------------------------------------------ *)
\* The if/elif chain of lines 371-408: raw field code to label.
FieldLabel(key) ==
  CASE key = "title"  -> "Title"
    [] key = "titlea" -> "Title (Arabic)"
    [] key = "creato" -> "Creator"
    [] key = "creata" -> "Creator (Arabic)"
    [] key = "publis" -> "Publisher"
    [] key = "date"   -> "Date"
    [] key = "notes"  -> "Notes"
    [] key = "covera" -> "Location"
    [] key = "descri" -> "Description"
    [] key = "subjec" -> "Subject"
    [] key = "type"   -> "Type"
    [] key = "audien" -> "Genre (AAT)"
    [] key = "langua" -> "Language"
    [] key = "contri" -> "Collection"
    [] key = "source" -> "Source"
    [] key = "rights" -> "Rights"
    [] key = "format" -> "Call number"
    [] key = "relati" -> "Link to catalogue"
    [] OTHER          -> key

\* The loop with "if label not in record" before the assignment, so that the
\* first field of a label stays: OneEntryRecord tells it from StateRecord.
RECURSIVE StateRecordKeepFirst(_, _)
StateRecordKeepFirst(fields, record) ==
  IF fields = <<>> THEN record
  ELSE LET field == Head(fields) IN
       IF /\ "key" \in DOMAIN field /\ "value" \in DOMAIN field
          /\ FieldLabel(field.key) \notin DOMAIN record
       THEN StateRecordKeepFirst(Tail(fields),
                                 Put(record, FieldLabel(field.key), field.value))
       ELSE StateRecordKeepFirst(Tail(fields), record)

\* for field in parent['fields']: ... record[label] = value
RECURSIVE StateRecord(_, _)
StateRecord(fields, record) ==
  IF fields = <<>> THEN record
  ELSE LET field == Head(fields) IN
       IF "key" \in DOMAIN field /\ "value" \in DOMAIN field
       THEN StateRecord(Tail(fields), Put(record, FieldLabel(field.key), field.value))
       ELSE StateRecord(Tail(fields), record)

(* ------------------------------------------------------------------ *)
(* Strategy 2: the Item Description section                            *)
(* ------------------------------------------------------------------ *)
KnownLabels ==
  {"Title (English)", "Title (Arabic)", "Creator", "Location-Governorate (English)",
   "Location-Governorate (Arabic)", "Location-Country (English)",
   "Location-Country (Arabic)", "Date", "Subject LC", "Keywords (English)",
   "Keywords (Arabic)", "Medium", "Type", "Collection", "Source", "Access Rights",
   "Creator (Arabic)", "Creator (English)", "Creator (Alternative)",
   "Description (English)", "Description (Arabic)", "Size (H) x (W) cm"}

\* if current_key and current_value: record[current_key] = current_value.strip()
Flush(record, current_key, current_value) ==
  IF current_key # "" /\ current_value # ""
  THEN Put(record, current_key, Strip(current_value))
  ELSE record

\* A line is taken for a field name when it ends with a colon or is a known label.
IsFieldName(line) == EndsWith(line, ":") \/ line \in KnownLabels

\* The loop of lines 493-529.  current_key and current_value start as None,
\* which the code only tests for truth: "" stands for it.
RECURSIVE ParseSection(_, _, _, _, _)
ParseSection(lines, i, current_key, current_value, record) ==
  IF i > Len(lines) THEN Flush(record, current_key, current_value)
  ELSE LET line == lines[i] IN
       IF IsFieldName(line)
       THEN ParseSection(lines, i + 1, RStripColon(line), "",
                         Flush(record, current_key, current_value))
       ELSE IF current_key # ""
       THEN ParseSection(lines, i + 1, current_key,
                         IF current_value # "" THEN current_value \o " " \o line ELSE line,
                         record)
       ELSE IF /\ Len(line) > 10
               /\ ~\E c \in {"(", ")", ":"} : Contains(line, c)
               /\ "Title" \notin DOMAIN record
       THEN ParseSection(lines, i + 1, current_key, current_value,
                         Put(record, "Title", line))
       ELSE ParseSection(lines, i + 1, current_key, current_value, record)

\* Lines 484-529: nothing is parsed when no Item Description section is found.
SectionRecord(view, record) ==
  IF IsNone(view.section) THEN record
  ELSE ParseSection(StripLines(Val(view.section)), 1, "", "", record)

\* Lines 532-550: the Object Description text, when it is longer than 10.
ObjectRecord(view, record) ==
  IF IsNone(view.obj_desc) THEN record
  ELSE LET desc_text == Strip(Val(view.obj_desc)) IN
       IF desc_text # "" /\ Len(desc_text) > 10
       THEN Put(record, "Description", desc_text)
       ELSE record

(* ------------------------------------------------------------------ *)
(* Strategy 3: label patterns over the lines of the page text          *)
(* ------------------------------------------------------------------ *)
\* field_patterns, in the order of the dict.
field_patterns ==
  << [name |-> "Title",       patterns |-> <<"Title", "title">>],
     [name |-> "Creator",     patterns |-> <<"Creator", "creator", "Author", "author">>],
     [name |-> "Date",        patterns |-> <<"Date", "date">>],
     [name |-> "Subject",     patterns |-> <<"Subject", "subject">>],
     [name |-> "Type",        patterns |-> <<"Type", "type">>],
     [name |-> "Language",    patterns |-> <<"Language", "language">>],
     [name |-> "Publisher",   patterns |-> <<"Publisher", "publisher">>],
     [name |-> "Source",      patterns |-> <<"Source", "source">>],
     [name |-> "Collection",  patterns |-> <<"Collection", "collection">>],
     [name |-> "Rights",      patterns |-> <<"Rights", "rights">>],
     [name |-> "Call number", patterns |-> <<"Call number", "call number",
                                             "Identifier", "identifier">>] >>

AllPatterns ==
  UNION { {field_patterns[f].patterns[k] : k \in DOMAIN field_patterns[f].patterns}
          : f \in DOMAIN field_patterns }

\* line == pattern or line == pattern + ':' or line.startswith(pattern + ':')
LineMatches(line, patterns) ==
  \E k \in DOMAIN patterns :
     \/ line = patterns[k]
     \/ line = patterns[k] \o ":"
     \/ StartsWith(line, patterns[k] \o ":")

\* The test of lines 587-590 on a line that may hold the value.
IsValueLine(potential_value) ==
  /\ potential_value # ""
  /\ ~EndsWith(potential_value, ":")
  /\ Len(potential_value) > 1
  /\ ~\E p \in AllPatterns : StartsWith(potential_value, p)

\* for j in range(i + 1, min(i + 4, len(lines))), 1-based: the lines after line i.
ValueCandidates(lines, i) ==
  { j \in (i + 1)..(i + 3) : j <= Len(lines) /\ IsValueLine(Strip(lines[j])) }

\* One (line, field) round of the loops of lines 577-594.
PatternRound(lines, i, f, record) ==
  IF /\ field_patterns[f].name \notin DOMAIN record
     /\ LineMatches(lines[i], field_patterns[f].patterns)
     /\ ValueCandidates(lines, i) # {}
  THEN LET j == CHOOSE c \in ValueCandidates(lines, i) :
                   \A d \in ValueCandidates(lines, i) : c <= d
       IN  Put(record, field_patterns[f].name, Strip(lines[j]))
  ELSE record

\* for field_name, patterns in field_patterns.items(): ... on line i.
RECURSIVE PatternFields(_, _, _, _)
PatternFields(lines, i, f, record) ==
  IF f > Len(field_patterns) THEN record
  ELSE PatternFields(lines, i, f + 1, PatternRound(lines, i, f, record))

\* for i, line in enumerate(lines): ...  A line either sets fields or leaves
\* the record as it was (PatternRound never overwrites a key).
RECURSIVE PatternLoop(_, _, _)
PatternLoop(lines, i, record) ==
  IF i > Len(lines) THEN record
  ELSE LET after == PatternFields(lines, i, 1, record) IN
       IF DictLen(after) = DictLen(record)
       THEN PatternLoop(lines, i + 1, record)
       ELSE PatternLoop(lines, i + 1, after)

PatternRecord(view, record) == PatternLoop(StripLines(view.body), 1, record)

(* ------------------------------------------------------------------ *)
(* Strategy 4: label and value elements of the DOM                     *)
(* ------------------------------------------------------------------ *)
\* key = dt.text.strip(); if key and key.endswith(':'): key = key[:-1]
DomKey(dt) ==
  LET key == Strip(dt) IN
  IF key # "" /\ EndsWith(key, ":") THEN SubSeq(key, 1, Len(key) - 1) ELSE key

RECURSIVE DomRecord(_, _)
DomRecord(pairs, record) ==
  IF pairs = <<>> THEN record
  ELSE LET key   == DomKey(Head(pairs).dt)
           value == IF IsNone(Head(pairs).dd) THEN "" ELSE Strip(Val(Head(pairs).dd))
       IN  IF key # "" /\ value # "" /\ value # key /\ Len(value) > 1
           THEN DomRecord(Tail(pairs), Put(record, key, value))
           ELSE DomRecord(Tail(pairs), record)

(* ------------------------------------------------------------------ *)
(* extract_description_data, one strategy at a time                    *)
(* ------------------------------------------------------------------ *)
\* The strategies after the embedded state.
Fallbacks == {"section", "object", "pattern", "dom"}

\* The state of one call: where it is, the page it reads, the record it is
\* building, the strategies it has invoked, and the value it returns.
XStart(view) ==
  [pc |-> "load", view |-> view, record |-> EmptyDict, calls |-> <<>>,
   result |-> EmptyDict]

XReturn(st, value) == [st EXCEPT !.pc = "return", !.result = value]

\* self.driver.get(entry_url); if not self.wait_for_page_load(): return {}
StepLoad(st) ==
  IF st.view.load THEN [st EXCEPT !.pc = "state"] ELSE XReturn(st, EmptyDict)

\* Lines 358-422 with "len(record) > 3" at line 418: ShortCircuit tells it from
\* StepState.
StepStateAboveThree(st) ==
  LET view  == st.view
      calls == Append(st.calls, "structured")
  IN  IF view.shape = "badtype"
      THEN XReturn([st EXCEPT !.calls = calls], EmptyDict)
      ELSE IF view.shape \in {"ok", "nofields"}
      THEN LET fields == IF view.shape = "ok" THEN view.fields ELSE <<>>
               record == WithImage(view, StateRecord(fields, EmptyDict))
               after  == [st EXCEPT !.calls = Append(calls, "image"), !.record = record]
           IN  IF DictLen(record) > 3
               THEN XReturn(after, record)
               ELSE [after EXCEPT !.pc = "section"]
      ELSE [st EXCEPT !.calls = calls, !.pc = "section"]

\* Lines 358-422.  A walk that raises ends in the outer except: return {}.
StepState(st) ==
  LET view  == st.view
      calls == Append(st.calls, "structured")
  IN  IF view.shape = "badtype"
      THEN XReturn([st EXCEPT !.calls = calls], EmptyDict)
      ELSE IF view.shape \in {"ok", "nofields"}
      THEN LET fields == IF view.shape = "ok" THEN view.fields ELSE <<>>
               record == WithImage(view, StateRecord(fields, EmptyDict))
               after  == [st EXCEPT !.calls = Append(calls, "image"), !.record = record]
           IN  IF DictLen(record) > 1
               THEN XReturn(after, record)
               ELSE [after EXCEPT !.pc = "section"]
      ELSE [st EXCEPT !.calls = calls, !.pc = "section"]

\* The pc after a fallback strategy: the next one runs while len(record) < 3.
AfterFallback(record, next) == IF DictLen(record) < 3 THEN next ELSE "image"

\* Lines 425-529: record = {} and the Item Description section.
StepSection(st) ==
  LET record == SectionRecord(st.view, EmptyDict) IN
  [st EXCEPT !.calls = Append(st.calls, "section"), !.record = record,
             !.pc = AfterFallback(record, "object")]

\* Lines 532-550.
StepObject(st) ==
  LET record == ObjectRecord(st.view, st.record) IN
  [st EXCEPT !.calls = Append(st.calls, "object"), !.record = record,
             !.pc = AfterFallback(record, "pattern")]

\* Lines 556-597.
StepPattern(st) ==
  LET record == PatternRecord(st.view, st.record) IN
  [st EXCEPT !.calls = Append(st.calls, "pattern"), !.record = record,
             !.pc = AfterFallback(record, "dom")]

\* Lines 600-638.
StepDom(st) ==
  LET record == DomRecord(st.view.pairs, st.record) IN
  [st EXCEPT !.calls = Append(st.calls, "dom"), !.record = record, !.pc = "image"]

\* Lines 641-647.
StepImage(st) ==
  LET record == WithImage(st.view, st.record) IN
  XReturn([st EXCEPT !.calls = Append(st.calls, "image"), !.record = record], record)

XStep(st) ==
  CASE st.pc = "load"    -> StepLoad(st)
    [] st.pc = "state"   -> StepState(st)
    [] st.pc = "section" -> StepSection(st)
    [] st.pc = "object"  -> StepObject(st)
    [] st.pc = "pattern" -> StepPattern(st)
    [] st.pc = "dom"     -> StepDom(st)
    [] st.pc = "image"   -> StepImage(st)
    [] OTHER             -> st

RECURSIVE XRun(_)
XRun(st) == IF st.pc = "return" THEN st ELSE XRun(XStep(st))

\* The dict extract_description_data returns for a page.
extract_description_data(view) == XRun(XStart(view)).result

(* ------------------------------------------------------------------ *)
(* get_entries_from_page                                               *)
(* ------------------------------------------------------------------ *)
\* A rendered listing page: whether it loaded in time, the href of the anchors
\* each of the six selectors matches, and the href of every anchor.

IsCollectionHref(href) ==
  Contains(href, "/digital/collection/") \/ Contains(href, "/collection/")

IsItemHref(href) ==
  Contains(href, "/id/") /\ (Contains(href, "collection") \/ Contains(href, "digital"))

\* The inner loops without "if href not in entry_links": HarvestDeduplicated
\* tells it from AppendNew.
RECURSIVE AppendEvery(_, _, _)
AppendEvery(entry_links, hrefs, fallback) ==
  IF hrefs = <<>> THEN entry_links
  ELSE LET href == Head(hrefs) IN
       IF /\ href # ""
          /\ IF fallback THEN IsItemHref(href) ELSE IsCollectionHref(href)
       THEN AppendEvery(Append(entry_links, href), Tail(hrefs), fallback)
       ELSE AppendEvery(entry_links, Tail(hrefs), fallback)

\* The two inner loops (lines 103-107 and 113-117): `fallback` tells which test
\* the href has to pass before "if href not in entry_links: append".
RECURSIVE AppendNew(_, _, _)
AppendNew(entry_links, hrefs, fallback) ==
  IF hrefs = <<>> THEN entry_links
  ELSE LET href == Head(hrefs) IN
       IF /\ href # ""
          /\ IF fallback THEN IsItemHref(href) ELSE IsCollectionHref(href)
          /\ ~\E k \in DOMAIN entry_links : entry_links[k] = href
       THEN AppendNew(Append(entry_links, href), Tail(hrefs), fallback)
       ELSE AppendNew(entry_links, Tail(hrefs), fallback)

\* for selector in selectors: for link in links: ...
RECURSIVE SelectorLinks(_, _)
SelectorLinks(sel, entry_links) ==
  IF sel = <<>> THEN entry_links
  ELSE SelectorLinks(Tail(sel), AppendNew(entry_links, Head(sel), FALSE))

\* page_url = f"{self.search_url}/page/{page_num}"
PageUrl(page_num) == SEARCH_URL \o "/page/" \o ToString(page_num)

get_entries_from_page(page) ==
  IF ~page.load THEN <<>>
  ELSE LET entry_links == SelectorLinks(page.sel, <<>>) IN
       IF entry_links = <<>> THEN AppendNew(<<>>, page.anchors, TRUE)
       ELSE entry_links

(* ------------------------------------------------------------------ *)
(* The site, as the runs of the model see it                           *)
(* ------------------------------------------------------------------ *)
U1 == "http://auc/digital/collection/p1/id/1"
U2 == "http://auc/collection/p1/id/2"
ImgSrc == "https://site/img.jpg"

\* Listing pages a navigation may be shown: for each selector the hrefs of the
\* links it finds, and the hrefs of all anchors.  On "two" the first selector
\* finds U1 only and the second finds U2 as well.
Listing ==
  [ two     |-> [load |-> TRUE, sel |-> << <<U1, U1>>, <<U1, U2, U1>>, <<U2>> >>,
                 anchors |-> <<U1, U2, U1, "http://auc/about">>],
    one     |-> [load |-> TRUE, sel |-> << <<"http://auc/about">>, <<>> >>,
                 anchors |-> <<U2, "http://auc/about", U2>>],
    none    |-> [load |-> TRUE, sel |-> << <<>> >>, anchors |-> <<"http://auc/about">>],
    timeout |-> [load |-> FALSE, sel |-> <<>>, anchors |-> <<>>] ]

ListingNames == DOMAIN Listing

PageLinks == [n \in ListingNames |-> get_entries_from_page(Listing[n])]

NoPage ==
  [load |-> TRUE, shape |-> "absent", fields |-> <<>>, sel_imgs |-> <<>>,
   all_imgs |-> <<>>, section |-> None, obj_desc |-> None, body |-> <<>>,
   pairs |-> <<>>]

Field(k, v) == [key |-> k, value |-> v]

\* Detail pages an extraction attempt may be shown.
Detail ==
  [ timeout    |-> [NoPage EXCEPT !.load = FALSE],
    image_only |-> [NoPage EXCEPT !.shape = "ok", !.sel_imgs = <<ImgSrc>>],
    example    |-> [NoPage EXCEPT !.shape = "ok",
                                  !.fields = <<Field("title", "A"), Field("creato", "B"),
                                               Field("date", "1930")>>,
                                  !.sel_imgs = <<ImgSrc>>],
    odd        |-> [NoPage EXCEPT !.shape = "ok",
                                  !.fields = <<Field("title", "A"), Field("Title", "B")>>,
                                  !.sel_imgs = <<ImgSrc>>] ]

DetailNames == DOMAIN Detail

DetailData == [n \in DetailNames |-> extract_description_data(Detail[n])]

(* ------------------------------------------------------------------ *)
(* State                                                               *)
(* ------------------------------------------------------------------ *)
VARIABLES
  args,               \* the parsed command line
  failed_file,        \* the file --retry-failed names: readable or not, its entries
  prior,              \* the output files as earlier runs left them
  pc,                 \* where main() is
  mode,               \* the branch of main() that runs
  driver,             \* the browser session: "open" or "quit"
  main_error,         \* main()'s except clause was entered
  all_data,           \* self.all_data
  all_src,            \* for each record of all_data, the URL it was extracted from
  failed_entries,     \* self.failed_entries
  current_id,         \* self.current_id
  page_num,           \* the page of the loop over pages
  entry_urls,         \* the (capped) links of the current page
  harvests,           \* per harvested page: the links returned and the links kept
  idx,                \* 1-based position of the loop over entries
  op,                 \* the retry wrapper call in progress, or the last one
  last,               \* the last extraction attempt: the page shown, the result, its fate
  visited,            \* pages a harvest or a page check was begun for, in order
  harvested,          \* pages get_entries_from_page was called for, in order
  attempted,          \* URLs retry_extract_description_data was called for, in order
  available_pages,    \* validate_page_range: the pages found to hold entries
  still_failed,       \* retry_failed_entries: the entries that failed again
  successful_retries, \* retry_failed_entries: its counter
  rf_result,          \* None, or the pair retry_failed_entries returned
  files,              \* the output files written so far
  xst                 \* a call of extract_description_data followed step by step

sessionVars == <<all_data, all_src, failed_entries, current_id>>
loopVars    == <<page_num, entry_urls, harvests, idx>>
retryVars   == <<still_failed, successful_retries, rf_result>>
callVars    == <<visited, harvested, attempted, available_pages>>
inputVars   == <<args, failed_file, prior>>

vars == <<args, failed_file, prior, pc, mode, driver, main_error, all_data, all_src,
          failed_entries, current_id, page_num, entry_urls, harvests, idx, op, last, visited,
          harvested, attempted, available_pages, still_failed,
          successful_retries, rf_result, files, xst>>

(* ------------------------------------------------------------------ *)
(* Inputs                                                              *)
(* ------------------------------------------------------------------ *)
Pages == 1..MaxPage

CommandLines ==
  [ retry_failed     : BOOLEAN,
    single_page      : {None} \cup {Some(n) : n \in 0..MaxPage},
    validate_only    : BOOLEAN,
    start_page       : Pages,
    end_page         : Pages,
    records_per_page : {None, Some(0), Some(1)},
    max_retries      : 0..MaxRetriesBound,
    retry_delay      : {RETRY_DELAY} ]

\* The command lines tried: every combination of the mode flags; the page
\* range and the cap vary on the command lines whose mode reads them.
ArgsSet ==
  { a \in CommandLines :
      /\ (a.retry_failed \/ ~IsNone(a.single_page)) =>
            a.start_page = 1 /\ a.end_page = 1 /\ a.records_per_page # Some(0)
      /\ a.retry_failed => IsNone(a.records_per_page)
      /\ a.validate_only => IsNone(a.records_per_page)
      /\ a.retry_failed => a.single_page \in {None, Some(1)} }

FailureRecord(url, attempts) == [url |-> url, attempts |-> attempts]

\* Failure files: unreadable, empty, entries (one URL, one URL twice, two URLs), and an
\* entry that has no 'url'.
FailureFiles ==
  { [readable |-> FALSE, entries |-> <<>>],
    [readable |-> TRUE,  entries |-> <<>>],
    [readable |-> TRUE,  entries |-> <<FailureRecord(U2, 4)>>],
    [readable |-> TRUE,  entries |-> <<FailureRecord(U1, 4), FailureRecord(U1, 4)>>],
    [readable |-> TRUE,  entries |-> <<FailureRecord(U1, 4), FailureRecord(U2, 4)>>],
    [readable |-> TRUE,  entries |-> <<FailureRecord(U2, 4), [attempts |-> 4]>>] }

NoFailureFile == [readable |-> FALSE, entries |-> <<>>]

NoOp ==
  [kind |-> "none", page |-> 0, url |-> "", attempt |-> 0, trace |-> <<>>,
   done |-> TRUE, ok |-> FALSE]

NewOp(kind, page, url) ==
  [kind |-> kind, page |-> page, url |-> url, attempt |-> 0, trace |-> <<>>,
   done |-> FALSE, ok |-> FALSE]

\* The events of a wrapper call: attempt n and how it ended ("ok", "fail" for a
\* result below the threshold, "raise"), or the sleep after attempt n.
AttemptEvent(n, out) == [ev |-> "attempt", n |-> n, out |-> out, delay |-> 0]

SleepEvent(n, delay) == [ev |-> "sleep", n |-> n, out |-> "", delay |-> delay]

NoFiles == [data |-> None, failed |-> None, retry_ok |-> None, retry_failed |-> None]

\* A record an earlier run saved.
EarlierRecord ==
  Put(Put(Put(EmptyDict, "Title", "Old"), "Image URL", ImgSrc), "id", 1)

\* The output files after a crawl and a retry run: the crawl's records and
\* failures, and the records of the retry run.
EarlierFiles ==
  [data         |-> Some(<<EarlierRecord>>),
   failed       |-> Some(<<FailureRecord(U1, 4), FailureRecord(U2, 4)>>),
   retry_ok     |-> Some(<<EarlierRecord>>),
   retry_failed |-> None]

XIdle == [XStart(NoPage) EXCEPT !.pc = "idle"]

\* The scraper as __init__ leaves it (lines 39-56), before main() dispatches.
Constructed ==
  /\ driver = "open"
  /\ main_error = FALSE
  /\ all_data = <<>>
  /\ all_src = <<>>
  /\ failed_entries = <<>>
  /\ current_id = 1
  /\ mode = "none"
  /\ page_num = 0
  /\ entry_urls = <<>>
  /\ harvests = <<>>
  /\ idx = 1
  /\ op = NoOp
  /\ last = [shown |-> "none", data |-> EmptyDict, accepted |-> FALSE]
  /\ visited = <<>>
  /\ harvested = <<>>
  /\ attempted = <<>>
  /\ available_pages = <<>>
  /\ still_failed = <<>>
  /\ successful_retries = 0
  /\ rf_result = None
  /\ files = NoFiles

Init ==
  /\ args \in ArgsSet
  /\ failed_file \in IF args.retry_failed THEN FailureFiles ELSE {NoFailureFile}
  /\ prior \in IF args.retry_failed THEN {NoFiles, EarlierFiles} ELSE {NoFiles}
  /\ pc = "main"
  /\ xst = XIdle
  /\ Constructed

(* ------------------------------------------------------------------ *)
(* Helpers of the crawl                                                *)
(* ------------------------------------------------------------------ *)
\* Python truth of an Optional[int] argument ("elif args.single_page:").
Truthy(o) == ~IsNone(o) /\ Val(o) # 0

\* A cap that is read and never applied: RangeCapApplied tells it from Capped.
CappedNever(urls, cap) == urls

\* entry_urls[:cap] when cap is not None and cap > 0 (lines 728-729, 784-785).
Capped(urls, cap) ==
  IF ~IsNone(cap) /\ Val(cap) > 0 /\ Val(cap) < Len(urls)
  THEN SubSeq(urls, 1, Val(cap))
  ELSE urls

\* The cap each mode applies to the links of a page.
PageCap == IF mode = "single" THEN Some(MAX_RECORDS_TO_SCRAPE) ELSE args.records_per_page

\* add_id_to_entry without "self.current_id += 1": IdsGapFree tells it from
\* add_id_to_entry.
add_id_to_entry_same_id(entry_data, cid) ==
  IF entry_data # EmptyDict
  THEN [entry |-> Put(entry_data, "id", cid), next |-> cid]
  ELSE [entry |-> entry_data, next |-> cid]

\* add_id_to_entry: the entry with its id, and the counter after the call.
add_id_to_entry(entry_data, cid) ==
  IF entry_data # EmptyDict
  THEN [entry |-> Put(entry_data, "id", cid), next |-> cid + 1]
  ELSE [entry |-> entry_data, next |-> cid]

\* "if data:" in place of line 259: AcceptedFromTwoFields tells it from Accepted.
AcceptedNonEmpty(data) == data # EmptyDict

\* if data and len(data) > 1 (line 259)
Accepted(data) == data # EmptyDict /\ DictLen(data) > 1

\* if entry_links (line 137)
LinksFound(entry_links) == entry_links # <<>>

\* A sleep after every failed attempt, the last one too: RetryTrace tells it
\* from SleepsAfter.
SleepsAfterEvery(attempt, max_retries) == attempt <= max_retries

\* if attempt < max_retries: time.sleep(retry_delay) (lines 148 and 270)
SleepsAfter(attempt, max_retries) == attempt < max_retries

\* for attempt in range(max_retries + 1): is there an iteration after `attempt`?
HasNextAttempt(attempt, max_retries) == attempt + 1 < max_retries + 1

(* ------------------------------------------------------------------ *)
(* main(): dispatch (lines 888-910)                                    *)
(* ------------------------------------------------------------------ *)
MainDispatch ==
  /\ pc = "main"
  /\ IF args.retry_failed
     THEN /\ mode' = "retry"
          /\ pc' = "rf_open"
          /\ UNCHANGED <<page_num, op, visited, harvested>>
     ELSE IF Truthy(args.single_page)
     THEN /\ mode' = "single"
          /\ page_num' = Val(args.single_page)
          /\ op' = NewOp("harvest", Val(args.single_page), "")
          /\ visited' = <<Val(args.single_page)>>
          /\ harvested' = <<Val(args.single_page)>>
          /\ pc' = "harvest"
     ELSE IF args.validate_only
     THEN /\ mode' = "validate"
          /\ page_num' = args.start_page
          /\ pc' = IF args.start_page <= args.end_page THEN "validate" ELSE "save"
          /\ UNCHANGED <<op, visited, harvested>>
     ELSE /\ mode' = "range"
          /\ page_num' = args.start_page
          /\ IF args.start_page <= args.end_page
             THEN /\ op' = NewOp("harvest", args.start_page, "")
                  /\ visited' = <<args.start_page>>
                  /\ harvested' = <<args.start_page>>
                  /\ pc' = "harvest"
             ELSE /\ pc' = "save"
                  /\ UNCHANGED <<op, visited, harvested>>
  /\ UNCHANGED <<inputVars, driver, main_error, sessionVars, entry_urls, harvests, idx, last,
                 attempted, available_pages, retryVars, files, xst>>

(* ------------------------------------------------------------------ *)
(* retry_get_entries_from_page (lines 124-153) and its callers         *)
(* ------------------------------------------------------------------ *)
\* The wrapper returns entry_links to scrape_single_page / scrape_multiple_pages,
\* which cap them and start the loop over entries.
HarvestReturn(entry_links, trace, ok) ==
  /\ entry_urls' = Capped(entry_links, PageCap)
  /\ harvests' = Append(harvests, [page |-> op.page, links |-> entry_links,
                                   urls |-> Capped(entry_links, PageCap)])
  /\ idx' = 1
  /\ op' = [op EXCEPT !.trace = trace, !.done = TRUE, !.ok = ok]
  /\ pc' = "entries"

\* After a failed attempt, and its sleep if any: the next iteration, or line 153.
HarvestAdvance(trace) ==
  IF HasNextAttempt(op.attempt, args.max_retries)
  THEN /\ op' = [op EXCEPT !.attempt = @ + 1, !.trace = trace]
       /\ pc' = "harvest"
       /\ UNCHANGED <<entry_urls, harvests, idx>>
  ELSE HarvestReturn(<<>>, trace, FALSE)

\* One iteration of the loop: get_entries_from_page on the page as rendered now.
GetEntriesAttempt ==
  /\ pc = "harvest"
  /\ \E shown \in ListingNames \cup {"raise"} :
       LET entry_links == IF shown = "raise" THEN <<>> ELSE PageLinks[shown]
           found == shown # "raise" /\ LinksFound(entry_links)
           out   == IF found THEN "ok" ELSE IF shown = "raise" THEN "raise" ELSE "fail"
           trace == Append(op.trace, AttemptEvent(op.attempt, out))
       IN  IF found
           THEN HarvestReturn(entry_links, trace, TRUE)
           ELSE IF SleepsAfter(op.attempt, args.max_retries)
           THEN /\ op' = [op EXCEPT !.trace = trace]
                /\ pc' = "harvest_sleep"
                /\ UNCHANGED <<entry_urls, harvests, idx>>
           ELSE HarvestAdvance(trace)
  /\ UNCHANGED <<inputVars, mode, driver, main_error, sessionVars, page_num, last,
                 callVars, retryVars, files, xst>>

HarvestSleep ==
  /\ pc = "harvest_sleep"
  /\ HarvestAdvance(Append(op.trace, SleepEvent(op.attempt, args.retry_delay)))
  /\ UNCHANGED <<inputVars, mode, driver, main_error, sessionVars, page_num, last,
                 callVars, retryVars, files, xst>>

(* ------------------------------------------------------------------ *)
(* The loop over the entries of a page (lines 732-748, 791-822)        *)
(* ------------------------------------------------------------------ *)
\* The loops as they would be if a URL given up ended the crawl: RangeVisitsAll
\* tells it from EntryLoop.
EntryLoopAborting ==
  /\ pc = "entries"
  /\ IF idx <= Len(entry_urls) /\ ~(op.kind = "extract" /\ ~op.ok)
     THEN /\ op' = NewOp("extract", page_num, entry_urls[idx])
          /\ attempted' = Append(attempted, entry_urls[idx])
          /\ pc' = "extract"
          /\ UNCHANGED <<page_num, visited, harvested>>
     ELSE IF mode = "range" /\ page_num < args.end_page
     THEN /\ page_num' = page_num + 1
          /\ op' = NewOp("harvest", page_num + 1, "")
          /\ visited' = Append(visited, page_num + 1)
          /\ harvested' = Append(harvested, page_num + 1)
          /\ pc' = "harvest"
          /\ UNCHANGED attempted
     ELSE /\ pc' = "save"
          /\ UNCHANGED <<page_num, op, visited, harvested, attempted>>
  /\ UNCHANGED <<inputVars, mode, driver, main_error, sessionVars, entry_urls, harvests, idx,
                 last, available_pages, retryVars, files, xst>>

\* for entry_url in entry_urls: ...; then the next page of the range, if any.
EntryLoop ==
  /\ pc = "entries"
  /\ IF idx <= Len(entry_urls)
     THEN /\ op' = NewOp("extract", page_num, entry_urls[idx])
          /\ attempted' = Append(attempted, entry_urls[idx])
          /\ pc' = "extract"
          /\ UNCHANGED <<page_num, visited, harvested>>
     ELSE IF mode = "range" /\ page_num < args.end_page
     THEN /\ page_num' = page_num + 1
          /\ op' = NewOp("harvest", page_num + 1, "")
          /\ visited' = Append(visited, page_num + 1)
          /\ harvested' = Append(harvested, page_num + 1)
          /\ pc' = "harvest"
          /\ UNCHANGED attempted
     ELSE /\ pc' = "save"
          /\ UNCHANGED <<page_num, op, visited, harvested, attempted>>
  /\ UNCHANGED <<inputVars, mode, driver, main_error, sessionVars, entry_urls, harvests, idx,
                 last, available_pages, retryVars, files, xst>>

(* ------------------------------------------------------------------ *)
(* retry_extract_description_data (lines 244-281) and its callers      *)
(* ------------------------------------------------------------------ *)
\* Where the caller's loop goes on after the wrapper returned.
LoopPc == IF mode = "retry" THEN "rf_loop" ELSE "entries"

\* A wrapper that records a failure for a URL it returns data for: OneOutcome
\* tells it from ExtractReturn.
ExtractReturnRecorded(data, trace) ==
  LET given == add_id_to_entry(data, current_id) IN
  /\ all_data' = Append(all_data, given.entry)
  /\ all_src' = Append(all_src, op.url)
  /\ current_id' = given.next
  /\ successful_retries' = IF mode = "retry" THEN successful_retries + 1
                           ELSE successful_retries
  /\ failed_entries' = Append(failed_entries, FailureRecord(op.url, op.attempt))
  /\ idx' = idx + 1
  /\ op' = [op EXCEPT !.trace = trace, !.done = TRUE, !.ok = TRUE]
  /\ pc' = LoopPc
  /\ UNCHANGED still_failed

\* The wrapper returns data; the caller (lines 738-743, 797-803, 301-306) gives
\* it an id and appends it.
ExtractReturn(data, trace) ==
  LET given == add_id_to_entry(data, current_id) IN
  /\ all_data' = Append(all_data, given.entry)
  /\ all_src' = Append(all_src, op.url)
  /\ current_id' = given.next
  /\ successful_retries' = IF mode = "retry" THEN successful_retries + 1
                           ELSE successful_retries
  /\ idx' = idx + 1
  /\ op' = [op EXCEPT !.trace = trace, !.done = TRUE, !.ok = TRUE]
  /\ pc' = LoopPc
  /\ UNCHANGED <<failed_entries, still_failed>>

\* Lines 274-281 with a caller that drops the entry instead of keeping it in
\* still_failed (line 308): RetryPartitions tells it from ExtractExhausted.
ExtractExhaustedDropped(trace) ==
  /\ failed_entries' = Append(failed_entries, FailureRecord(op.url, args.max_retries + 1))
  /\ idx' = idx + 1
  /\ op' = [op EXCEPT !.trace = trace, !.done = TRUE, !.ok = FALSE]
  /\ pc' = LoopPc
  /\ UNCHANGED <<all_data, all_src, current_id, successful_retries, still_failed>>

\* Lines 274-281: the failure is recorded and {} returned; the caller's else
\* branch (lines 744-746, 804-807, 307-309) appends nothing to all_data.
ExtractExhausted(trace) ==
  /\ failed_entries' = Append(failed_entries, FailureRecord(op.url, args.max_retries + 1))
  /\ still_failed' = IF mode = "retry" THEN Append(still_failed, failed_file.entries[idx])
                     ELSE still_failed
  /\ idx' = idx + 1
  /\ op' = [op EXCEPT !.trace = trace, !.done = TRUE, !.ok = FALSE]
  /\ pc' = LoopPc
  /\ UNCHANGED <<all_data, all_src, current_id, successful_retries>>

ExtractAdvance(trace) ==
  IF HasNextAttempt(op.attempt, args.max_retries)
  THEN /\ op' = [op EXCEPT !.attempt = @ + 1, !.trace = trace]
       /\ pc' = "extract"
       /\ UNCHANGED <<sessionVars, still_failed, successful_retries, idx>>
  ELSE ExtractExhausted(trace)

\* One iteration of the loop: extract_description_data on the page as rendered now.
ExtractAttempt ==
  /\ pc = "extract"
  /\ \E shown \in DetailNames \cup {"raise"} :
       LET data     == IF shown = "raise" THEN EmptyDict ELSE DetailData[shown]
           accepted == shown # "raise" /\ Accepted(data)
           out      == IF accepted THEN "ok" ELSE IF shown = "raise" THEN "raise" ELSE "fail"
           trace    == Append(op.trace, AttemptEvent(op.attempt, out))
       IN  /\ last' = [shown |-> shown, data |-> data, accepted |-> accepted]
           /\ IF accepted
              THEN ExtractReturn(data, trace)
              ELSE IF SleepsAfter(op.attempt, args.max_retries)
              THEN /\ op' = [op EXCEPT !.trace = trace]
                   /\ pc' = "extract_sleep"
                   /\ UNCHANGED <<sessionVars, still_failed, successful_retries, idx>>
              ELSE ExtractAdvance(trace)
  /\ UNCHANGED <<inputVars, mode, driver, main_error, page_num, entry_urls, harvests, callVars,
                 rf_result, files, xst>>

ExtractSleep ==
  /\ pc = "extract_sleep"
  /\ ExtractAdvance(Append(op.trace, SleepEvent(op.attempt, args.retry_delay)))
  /\ UNCHANGED <<inputVars, mode, driver, main_error, page_num, entry_urls, harvests, last,
                 callVars, rf_result, files, xst>>

(* ------------------------------------------------------------------ *)
(* retry_failed_entries (lines 283-329)                                *)
(* ------------------------------------------------------------------ *)
\* open() and json.load().  When they raise, the except clause evaluates
\* len(failed_entries) with failed_entries unbound: that raises out of
\* retry_failed_entries into main()'s except clause.
RetryFailedOpen ==
  /\ pc = "rf_open"
  /\ IF failed_file.readable
     THEN /\ idx' = 1
          /\ pc' = "rf_loop"
          /\ UNCHANGED main_error
     ELSE /\ main_error' = TRUE
          /\ pc' = "quit"
          /\ UNCHANGED idx
  /\ UNCHANGED <<inputVars, mode, driver, sessionVars, page_num, entry_urls, harvests, op, last,
                 callVars, retryVars, files, xst>>

\* A loop that retries one fixed URL whatever the entry names:
\* RemovedNotReprocessed tells it from EntryUrl.
EntryUrlFixed(failed_entry) == U1

\* url = failed_entry['url'] (line 295)
EntryUrl(failed_entry) == failed_entry.url

\* The loop over the loaded entries, and what follows it.
RetryFailedLoop ==
  /\ pc = "rf_loop"
  /\ IF idx <= Len(failed_file.entries)
     THEN IF "url" \in DOMAIN failed_file.entries[idx]
          THEN \* url = failed_entry['url']; retry_extract_description_data(url, ...)
               /\ op' = NewOp("extract", 0, EntryUrl(failed_file.entries[idx]))
               /\ attempted' = Append(attempted, EntryUrl(failed_file.entries[idx]))
               /\ pc' = "extract"
               /\ UNCHANGED <<rf_result, files>>
          ELSE \* KeyError: except clause, return 0, len(failed_entries)
               /\ rf_result' = Some(<<0, Len(failed_file.entries)>>)
               /\ pc' = "save"
               /\ UNCHANGED <<op, attempted, files>>
     ELSE IF Len(failed_file.entries) = 0
          THEN \* successful_retries/len(failed_entries): ZeroDivisionError, as above
               /\ rf_result' = Some(<<0, 0>>)
               /\ pc' = "save"
               /\ UNCHANGED <<op, attempted, files>>
          ELSE \* lines 319-325
               /\ files' = IF still_failed # <<>>
                           THEN [files EXCEPT !.retry_failed = Some(still_failed)]
                           ELSE files
               /\ rf_result' = Some(<<successful_retries, Len(still_failed)>>)
               /\ pc' = "save"
               /\ UNCHANGED <<op, attempted>>
  /\ UNCHANGED <<inputVars, mode, driver, main_error, sessionVars, loopVars, last,
                 visited, harvested, available_pages, still_failed,
                 successful_retries, xst>>

(* ------------------------------------------------------------------ *)
(* validate_page_range and get_page_info (lines 655-689)               *)
(* ------------------------------------------------------------------ *)
\* validate_page_range calling the extraction wrapper for a link of the page:
\* ValidateOnlyHarvests tells it from ValidatePage.
ValidatePageExtracting ==
  /\ pc = "validate"
  /\ harvested' = Append(harvested, page_num)
  /\ attempted' = Append(attempted, U1)
  /\ visited' = Append(visited, page_num)
  /\ IF page_num < args.end_page
     THEN /\ page_num' = page_num + 1
          /\ pc' = "validate"
     ELSE /\ pc' = "save"
          /\ UNCHANGED page_num
  /\ UNCHANGED <<inputVars, mode, driver, main_error, sessionVars, entry_urls, harvests, idx, op,
                 last, available_pages, retryVars, files, xst>>

\* get_page_info for page_num: the first navigation may time out or raise; else
\* get_entries_from_page navigates again and counts the links.
ValidatePage ==
  /\ pc = "validate"
  /\ \E first \in {"loaded", "timeout", "raise"} :
       IF first = "loaded"
       THEN \E shown \in ListingNames :
              /\ harvested' = Append(harvested, page_num)
              /\ available_pages' =
                   IF Len(PageLinks[shown]) > 0
                   THEN Append(available_pages,
                               [page_num |-> page_num,
                                entries_found |-> Len(PageLinks[shown])])
                   ELSE available_pages
       ELSE UNCHANGED <<harvested, available_pages>>
  /\ visited' = Append(visited, page_num)
  /\ IF page_num < args.end_page
     THEN /\ page_num' = page_num + 1
          /\ pc' = "validate"
     ELSE /\ pc' = "save"
          /\ UNCHANGED page_num
  /\ UNCHANGED <<inputVars, mode, driver, main_error, sessionVars, entry_urls, harvests, idx, op,
                 last, attempted, retryVars, files, xst>>

(* ------------------------------------------------------------------ *)
(* main(): what follows the branch (lines 892-894, 912-919)            *)
(* ------------------------------------------------------------------ *)
\* save_to_json(filename): json.dump(self.all_data)
save_to_json(fs, name) == [fs EXCEPT ![name] = Some(all_data)]

\* save_failed_entries(): nothing is written when there is no failed entry.
save_failed_entries(fs) ==
  IF failed_entries = <<>> THEN fs ELSE [fs EXCEPT !.failed = Some(failed_entries)]

MainSave ==
  /\ pc = "save"
  /\ files' =
       IF mode = "retry"
       THEN IF Val(rf_result)[1] > 0 THEN save_to_json(files, "retry_ok") ELSE files
       ELSE IF ~args.validate_only /\ ~args.retry_failed
       THEN save_failed_entries(save_to_json(files, "data"))
       ELSE files
  /\ pc' = "quit"
  /\ UNCHANGED <<inputVars, mode, driver, main_error, sessionVars, loopVars, op, last,
                 callVars, retryVars, xst>>

\* finally: scraper.driver.quit()
DriverQuit ==
  /\ pc = "quit"
  /\ driver' = "quit"
  /\ pc' = "done"
  /\ UNCHANGED <<inputVars, mode, main_error, sessionVars, loopVars, op, last,
                 callVars, retryVars, files, xst>>

\* The pcs at which main() is inside a browser call or a sleep.
Interruptible ==
  {"harvest", "harvest_sleep", "entries", "extract", "extract_sleep", "rf_loop", "validate"}

\* An interrupt that left the session open, as if driver.quit() were the last
\* statement of the try block: SessionScoped tells it from Interrupt.
InterruptLeaking ==
  /\ pc \in Interruptible
  /\ pc' = "interrupted"
  /\ UNCHANGED <<inputVars, mode, driver, main_error, sessionVars, loopVars, op, last,
                 callVars, retryVars, files, xst>>

\* KeyboardInterrupt during a browser call or a sleep: no "except Exception"
\* on the way catches it, main()'s finally clause quits the driver, nothing is
\* saved and the interrupt ends the process.
Interrupt ==
  /\ pc \in Interruptible
  /\ driver' = "quit"
  /\ pc' = "interrupted"
  /\ UNCHANGED <<inputVars, mode, main_error, sessionVars, loopVars, op, last,
                 callVars, retryVars, files, xst>>

Next ==
  \/ MainDispatch
  \/ GetEntriesAttempt
  \/ HarvestSleep
  \/ EntryLoop
  \/ ExtractAttempt
  \/ ExtractSleep
  \/ RetryFailedOpen
  \/ RetryFailedLoop
  \/ ValidatePage
  \/ MainSave
  \/ DriverQuit
  \/ Interrupt

Spec == Init /\ [][Next]_vars

(* ------------------------------------------------------------------ *)
(* extract_description_data on its own, one strategy per step          *)
(* ------------------------------------------------------------------ *)
\* Longest parent['fields'] list of the pages tried.
MaxFields == 2

XFieldEntries ==
  { Field("title", "A"), Field("creato", "B"), Field("Title", "C"),
    Field("xcode", "D"), [key |-> "date"] }

XFieldSeqs == UNION { [1..n -> XFieldEntries] : n \in 0..MaxFields }

\* The section text of the form "Item Description\nTitle (English): X\nCreator: Y\n".
SameLineSection(x, y) ==
  <<"Item Description", "Title (English): " \o x, "Creator: " \o y, "">>

XSections ==
  { None,
    Some(SameLineSection("X", "Y")),
    Some(SameLineSection("The Nile at Cairo", "Lehnert")),
    Some(<<"Item Description", "Title (English)", "X", "Creator:", "Y", " Z ">>) }

XPages ==
  { [load |-> l, shape |-> sh.shape, fields |-> sh.fields, sel_imgs |-> si,
     all_imgs |-> ai, section |-> se, obj_desc |-> od, body |-> bo, pairs |-> pa] :
    l  \in BOOLEAN,
    sh \in { [shape |-> n, fields |-> <<>>] :
               n \in {"absent", "malformed", "noitem", "noparent", "nofields", "badtype"} }
           \cup { [shape |-> "ok", fields |-> fs] : fs \in XFieldSeqs },
    si \in { <<>>, <<"/static/Logo.png", ImgSrc>>,
              <<"/static/favicon.ico", "/digital/thumbnails/7.jpg">> },
    ai \in { <<>>, << [src |-> "http://auc/item/9", width |-> 50, height |-> 0],
                      [src |-> "/full/2", width |-> 0, height |-> 200] >> },
    se \in XSections,
    od \in { None, Some(" Object Description: a view of the Nile ") },
    bo \in { <<>>, <<"Title:", "Creator", "ab", "Date: 1", "Date", "x", "1930">> },
    pa \in { <<>>, << [dt |-> "Medium:", dd |-> Some(" oil ")],
                      [dt |-> "Size", dd |-> None] >> } }

InitExtract ==
  /\ args = [retry_failed |-> FALSE, single_page |-> None, validate_only |-> FALSE,
             start_page |-> 1, end_page |-> 1, records_per_page |-> None,
             max_retries |-> 0, retry_delay |-> RETRY_DELAY]
  /\ failed_file = NoFailureFile
  /\ prior = NoFiles
  /\ pc = "idle"
  /\ Constructed
  /\ xst \in { XStart(view) : view \in XPages }

crawlVars ==
  <<args, failed_file, prior, pc, mode, driver, main_error, all_data, all_src,
    failed_entries, current_id, page_num, entry_urls, harvests, idx, op, last, visited,
    harvested, attempted, available_pages, still_failed,
    successful_retries, rf_result, files>>

XLoad    == xst.pc = "load"    /\ xst' = StepLoad(xst)    /\ UNCHANGED crawlVars
XState   == xst.pc = "state"   /\ xst' = StepState(xst)   /\ UNCHANGED crawlVars
XSection == xst.pc = "section" /\ xst' = StepSection(xst) /\ UNCHANGED crawlVars
XObject  == xst.pc = "object"  /\ xst' = StepObject(xst)  /\ UNCHANGED crawlVars
XPattern == xst.pc = "pattern" /\ xst' = StepPattern(xst) /\ UNCHANGED crawlVars
XDom     == xst.pc = "dom"     /\ xst' = StepDom(xst)     /\ UNCHANGED crawlVars
XImage   == xst.pc = "image"   /\ xst' = StepImage(xst)   /\ UNCHANGED crawlVars

NextExtract ==
  \/ XLoad
  \/ XState
  \/ XSection
  \/ XObject
  \/ XPattern
  \/ XDom
  \/ XImage

SpecExtract == InitExtract /\ [][NextExtract]_vars

(* ------------------------------------------------------------------ *)
(* scrape_with_validation (lines 691-711), called on a scraper         *)
(* ------------------------------------------------------------------ *)
\* The last page of the ranges tried: long enough for a page between two
\* available ones.
ValidatedLast == MaxPage + 1

\* The scraper as constructed and a call scrape_with_validation(start_page,
\* end_page, 1); args holds the arguments of the call in progress.
InitValidated ==
  /\ args \in { [retry_failed |-> FALSE, single_page |-> None, validate_only |-> FALSE,
                 start_page |-> s, end_page |-> e, records_per_page |-> Some(1),
                 max_retries |-> MaxRetriesBound, retry_delay |-> RETRY_DELAY] :
                s \in 1..2, e \in {1, ValidatedLast} }
  /\ failed_file = NoFailureFile
  /\ prior = NoFiles
  /\ pc = "swv"
  /\ xst = XIdle
  /\ Constructed

\* available_pages = self.validate_page_range(start_page, end_page)
ValidationStart ==
  /\ pc = "swv"
  /\ mode' = "validate"
  /\ page_num' = args.start_page
  /\ pc' = IF args.start_page <= args.end_page THEN "validate" ELSE "save"
  /\ UNCHANGED <<inputVars, driver, main_error, sessionVars, entry_urls, harvests, idx, op,
                 last, callVars, retryVars, files, xst>>

\* page_nums = [page["page_num"] for page in available_pages]
page_nums == [k \in DOMAIN available_pages |-> available_pages[k].page_num]

Min(seq) == CHOOSE x \in {seq[k] : k \in DOMAIN seq} : \A k \in DOMAIN seq : x <= seq[k]

Max(seq) == CHOOSE x \in {seq[k] : k \in DOMAIN seq} : \A k \in DOMAIN seq : x >= seq[k]

\* Lines 703-711: return when no page is available, else
\* self.scrape_multiple_pages(min(page_nums), max(page_nums), records_per_page),
\* whose loop starts on its first page.
ScrapeAvailable ==
  /\ pc = "save"
  /\ mode = "validate"
  /\ IF available_pages = <<>>
     THEN /\ pc' = "returned"
          /\ UNCHANGED <<args, mode, page_num, op, visited, harvested>>
     ELSE /\ args' = [args EXCEPT !.start_page = Min(page_nums), !.end_page = Max(page_nums)]
          /\ mode' = "range"
          /\ page_num' = Min(page_nums)
          /\ op' = NewOp("harvest", Min(page_nums), "")
          /\ visited' = Append(visited, Min(page_nums))
          /\ harvested' = Append(harvested, Min(page_nums))
          /\ pc' = "harvest"
  /\ UNCHANGED <<failed_file, prior, driver, main_error, sessionVars, entry_urls, harvests,
                 idx, last, attempted, available_pages, retryVars, files, xst>>

NextValidated ==
  \/ ValidationStart
  \/ ValidatePage
  \/ ScrapeAvailable
  \/ GetEntriesAttempt
  \/ HarvestSleep
  \/ EntryLoop
  \/ ExtractAttempt
  \/ ExtractSleep

SpecValidated == InitValidated /\ [][NextValidated]_vars

(* ------------------------------------------------------------------ *)
(* Properties of the crawl (Spec)                                      *)
(* ------------------------------------------------------------------ *)
\* C1: in every state of a run, and so after every completed run of any mode,
\* the records of all_data carry the ids 1, 2, ..., n in list order, and the
\* counter is n + 1: an exhausted URL has consumed no id.
IdsGapFree ==
  /\ current_id = Len(all_data) + 1
  /\ \A k \in DOMAIN all_data : all_data[k]["id"] = k

\* A completed run that accepted two records and gave up on a URL.
IdsGapFreeWitness ==
  /\ pc = "done"
  /\ Len(all_data) >= 2
  /\ failed_entries # <<>>

\* The entries of failed_entries that name url.
FailuresOf(url) == {k \in DOMAIN failed_entries : failed_entries[k].url = url}

\* C2: a URL whose extraction has just failed max_retries + 1 times is in
\* failed_entries exactly once, with attempts = max_retries + 1, and is the
\* source of no record of all_data.
ExhaustedOnce ==
  (op.kind = "extract" /\ op.done /\ ~op.ok) =>
     /\ Cardinality(FailuresOf(op.url)) = 1
     /\ \A k \in FailuresOf(op.url) : failed_entries[k].attempts = args.max_retries + 1
     /\ \A k \in DOMAIN all_src : all_src[k] # op.url

\* C3: in every state, no URL is both the source of a record of all_data and
\* the url of an entry of failed_entries.
MutuallyExclusive ==
  \A i \in DOMAIN all_src : FailuresOf(all_src[i]) = {}

LastEvent == op.trace[Len(op.trace)]

\* The events of a wrapper call so far: attempts and sleeps alternate, attempt n
\* and the sleep after it are numbered n; a sleep follows a failed attempt
\* n < max_retries and lasts retry_delay; nothing follows a successful attempt.
WellFormedTrace(t, max_retries, retry_delay) ==
  \A k \in DOMAIN t :
     /\ t[k].n = (k - 1) \div 2
     /\ t[k].n <= max_retries
     /\ t[k].ev = IF k % 2 = 1 THEN "attempt" ELSE "sleep"
     /\ k % 2 = 0 => /\ t[k].delay = retry_delay
                     /\ t[k - 1].out \in {"fail", "raise"}
                     /\ t[k].n < max_retries
     /\ k < Len(t) => t[k].out # "ok"

\* C4: the trace of each retry-wrapped operation is attempt 0, then after each
\* failed attempt n < max_retries a sleep of retry_delay and attempt n + 1; the
\* wrapper returns at the first successful attempt, or after attempt max_retries
\* with no sleep after it; an attempt that raised is a failed attempt.
RetryTrace ==
  /\ WellFormedTrace(op.trace, args.max_retries, args.retry_delay)
  /\ (op.kind # "none" /\ op.done) =>
        /\ op.trace # <<>>
        /\ LastEvent.ev = "attempt"
        /\ op.ok <=> LastEvent.out = "ok"
        /\ ~op.ok => LastEvent.n = args.max_retries
  /\ (op.kind # "none" /\ ~op.done) =>
        /\ op.attempt = Len(op.trace) \div 2
        /\ pc \in {"harvest", "extract"} =>
              op.trace = <<>> \/ LastEvent.ev = "sleep"
        /\ pc \in {"harvest_sleep", "extract_sleep"} =>
              op.trace # <<>> /\ LastEvent.ev = "attempt"

\* An extraction that raised, slept, was tried again and then given up.
RetryTraceWitness ==
  /\ op.kind = "extract" /\ op.done /\ ~op.ok
  /\ args.max_retries >= 1
  /\ Len(op.trace) = 2 * args.max_retries + 1
  /\ op.trace[1].out = "raise"

\* C5: when the harvest of a page has failed max_retries + 1 times, exactly one
\* entry of failed_entries names the URL of that page.
HarvestExhaustionRecorded ==
  (op.kind = "harvest" /\ op.done /\ ~op.ok) =>
     Cardinality(FailuresOf(PageUrl(op.page))) = 1

\* C6: when main() takes its validate-only branch, the extraction wrapper is
\* never called, all_data, failed_entries and current_id stay as constructed,
\* and get_entries_from_page is called at most once per page, for pages of
\* [start_page, end_page] only, in increasing order.
ValidateOnlyHarvests ==
  mode = "validate" =>
     /\ attempted = <<>>
     /\ last.shown = "none"
     /\ all_data = <<>> /\ failed_entries = <<>> /\ current_id = 1
     /\ \A k \in DOMAIN harvested :
           /\ harvested[k] \in args.start_page..args.end_page
           /\ k > 1 => harvested[k - 1] < harvested[k]
     /\ visited = [k \in 1..Len(visited) |-> args.start_page + k - 1]
     /\ pc \in {"quit", "done"} =>
           Len(visited) = IF args.start_page <= args.end_page
                          THEN args.end_page - args.start_page + 1 ELSE 0

\* A completed validate-only run over two pages that found entries.
ValidateOnlyWitness ==
  /\ mode = "validate" /\ pc = "done"
  /\ Len(harvested) >= 2
  /\ available_pages # <<>>

\* The fields of an embedded state that the loop of lines 368-408 reads.
Readable(fields) ==
  {k \in DOMAIN fields : "key" \in DOMAIN fields[k] /\ "value" \in DOMAIN fields[k]}

Labels(fields) == {FieldLabel(fields[k].key) : k \in Readable(fields)}

\* The last field of the list that is stored under label.
LastOf(fields, label) ==
  CHOOSE k \in Readable(fields) :
     /\ FieldLabel(fields[k].key) = label
     /\ \A j \in Readable(fields) : FieldLabel(fields[j].key) = label => j <= k

\* A completed run over one page that held one entry, whose only extraction
\* attempt was shown a page with an embedded state and a valid image.
OneEntryRun ==
  /\ pc = "done" /\ mode \in {"single", "range"}
  /\ Len(harvested) = 1 /\ Len(entry_urls) = 1 /\ Len(attempted) = 1
  /\ op.kind = "extract" /\ Len(op.trace) = 1
  /\ last.shown \in DetailNames
  /\ Detail[last.shown].load /\ Detail[last.shown].shape = "ok"
  /\ ~IsNone(extract_image_url(Detail[last.shown]))

ShownFields == Detail[last.shown].fields

ShownImage == Val(extract_image_url(Detail[last.shown]))

ExpectedRecord(fields, image) ==
  [x \in Labels(fields) \cup {"Image URL", "id"} |->
     IF x = "id" THEN 1
     ELSE IF x = "Image URL" THEN image
     ELSE fields[LastOf(fields, x)].value]

AcceptedFromTwoFields ==
  /\ last.accepted <=> DictLen(last.data) >= 2
  /\ DOMAIN last.data \subseteq {"Image URL"} => ~last.accepted
  /\ (pc \in {"extract", "extract_sleep"} /\ op.trace # <<>>) => ~last.accepted
  /\ (op.kind = "extract" /\ op.done) => (op.ok <=> last.accepted)

\* An attempt that returned only an Image URL and was followed by a sleep.
ImageOnlyRejected ==
  /\ pc = "extract_sleep"
  /\ DOMAIN last.data = {"Image URL"}
  /\ ~last.accepted

(* ------------------------------------------------------------------ *)
(* Properties of extract_description_data (SpecExtract)                *)
(* ------------------------------------------------------------------ *)
\* C7: when the embedded state of a page yields at least 2 labelled fields, the
\* call returns the record of the embedded state, with "Image URL" when an
\* image is found, and runs none of the fallback strategies.
ShortCircuit ==
  (/\ xst.pc = "return" /\ xst.view.load /\ xst.view.shape = "ok"
   /\ Cardinality(Labels(xst.view.fields)) >= 2) =>
     /\ xst.result = WithImage(xst.view, StateRecord(xst.view.fields, EmptyDict))
     /\ Labels(xst.view.fields) \subseteq DOMAIN xst.result
     /\ DOMAIN xst.result \subseteq Labels(xst.view.fields) \cup {"Image URL"}
     /\ \A k \in DOMAIN xst.calls : xst.calls[k] \notin Fallbacks

\* A page with two fields in its state, an image, and an Item Description
\* section, a description and label lines that the call never read.
ShortCircuitWitness ==
  /\ xst.pc = "return" /\ xst.view.load /\ xst.view.shape = "ok"
  /\ Cardinality(Labels(xst.view.fields)) = 2
  /\ ~IsNone(xst.view.section) /\ ~IsNone(xst.view.obj_desc) /\ xst.view.body # <<>>
  /\ "Image URL" \in DOMAIN xst.result

\* C8: for a page without embedded state whose section text is the lines
\* "Item Description", "Title (English): X", "Creator: Y", the section parser
\* leaves exactly {Title (English): X, Creator: Y}.
SameLineSectionRecovered ==
  (/\ xst.view.shape = "absent"
   /\ xst.view.section = Some(SameLineSection("X", "Y"))
   /\ xst.calls # <<>> /\ xst.calls[Len(xst.calls)] = "section") =>
     xst.record = Put(Put(EmptyDict, "Title (English)", "X"), "Creator", "Y")

(* ------------------------------------------------------------------ *)
(* Properties of the retry of a failure file (Spec)                    *)
(* ------------------------------------------------------------------ *)
\* The failure file was loaded and each of its entries names a URL.
WellFormedFile ==
  /\ failed_file.readable
  /\ \A k \in DOMAIN failed_file.entries : "url" \in DOMAIN failed_file.entries[k]

FileUrls == [k \in DOMAIN failed_file.entries |-> failed_file.entries[k].url]

IsPrefix(a, b) == Len(a) <= Len(b) /\ a = SubSeq(b, 1, Len(a))

\* The elements of seq at the positions of S, from position k on, in order.
RECURSIVE Pick(_, _, _)
Pick(seq, S, k) ==
  IF k > Len(seq) THEN <<>>
  ELSE (IF k \in S THEN <<seq[k]>> ELSE <<>>) \o Pick(seq, S, k + 1)

\* C11: a retry run over a loaded failure file calls the extraction wrapper for
\* the URLs of the file, in order, and for nothing else, and harvests no page;
\* when retry_failed_entries has returned, the entries split into those that
\* gave a record of all_data and those kept in still_failed: still_failed is an
\* order-preserving sub-list of the file, each entry is on exactly one side,
\* and every new failure was recorded after max_retries + 1 attempts.
RetryPartitions ==
  (mode = "retry" /\ WellFormedFile) =>
     /\ IsPrefix(attempted, FileUrls)
     /\ harvested = <<>>
     /\ \A k \in DOMAIN failed_entries :
           failed_entries[k].attempts = args.max_retries + 1
     /\ ~IsNone(rf_result) =>
           /\ attempted = FileUrls
           /\ \E S \in SUBSET DOMAIN failed_file.entries :
                 /\ all_src = Pick(FileUrls, S, 1)
                 /\ still_failed = Pick(failed_file.entries,
                                        DOMAIN failed_file.entries \ S, 1)
           /\ Len(still_failed) <= Len(failed_file.entries)
           /\ Val(rf_result) = <<Len(all_data), Len(still_failed)>>

\* A finished retry of a file of two URLs: the first gave a record, the second
\* stayed in the residual list, and both lists were written.
RetryPartitionsWitness ==
  /\ mode = "retry" /\ pc = "done"
  /\ WellFormedFile
  /\ FileUrls = <<U1, U2>>
  /\ all_src = <<U1>>
  /\ still_failed = <<failed_file.entries[2]>>
  /\ files.retry_ok = Some(all_data)
  /\ files.retry_failed = Some(still_failed)

\* The URLs of the site that no entry of the failure file names.
Unlisted ==
  {u \in {U1, U2} :
     \A k \in DOMAIN failed_file.entries :
        "url" \in DOMAIN failed_file.entries[k] => failed_file.entries[k].url # u}

\* C12: a retry run over a failure file that no longer lists a URL never calls
\* the extraction wrapper for that URL, and adds neither a record nor a failure
\* for it.
RemovedNotReprocessed ==
  mode = "retry" =>
     \A u \in Unlisted :
        /\ \A k \in DOMAIN attempted : attempted[k] # u
        /\ \A k \in DOMAIN all_src : all_src[k] # u
        /\ FailuresOf(u) = {}
        /\ op.kind = "extract" => op.url # u

\* After a crawl and a retry run that saved a record, a finished retry of the
\* file that lists U2 only: U2 was retried and gave a record, U1 was left alone.
RemovedWitness ==
  /\ mode = "retry" /\ pc = "done"
  /\ prior = EarlierFiles
  /\ Unlisted = {U1}
  /\ attempted = <<U2>>
  /\ all_src = <<U2>>

\* The output files when the run is over: open(filename, 'w') replaces what an
\* earlier run left under a name; the other files stay as they were.
Store == [n \in DOMAIN files |-> IF IsNone(files[n]) THEN prior[n] ELSE files[n]]

\* The records a set of output files holds under name n.
RecordsIn(fs, n) ==
  IF IsNone(fs[n]) THEN {} ELSE {Val(fs[n])[k] : k \in DOMAIN Val(fs[n])}

\* C13: when a retry run is over, every record that an earlier crawl or an
\* earlier retry run saved is still in the file it was saved in.
EarlierRecordsKept ==
  (mode = "retry" /\ pc = "done") =>
     \A n \in {"data", "retry_ok"} : RecordsIn(prior, n) \subseteq RecordsIn(Store, n)

(* ------------------------------------------------------------------ *)
(* Properties of the end of a run (Spec)                               *)
(* ------------------------------------------------------------------ *)
\* C14: when a run of any mode is over, it has written a list of its records
\* and a list, empty or not, of its failures.
ListsWritten ==
  pc = "done" =>
     /\ ~IsNone(files.data) \/ ~IsNone(files.retry_ok)
     /\ ~IsNone(files.failed) \/ ~IsNone(files.retry_failed)

\* The URLs the loops over the harvested pages are to extract, in order.
RECURSIVE Due(_)
Due(hs) == IF hs = <<>> THEN <<>> ELSE Head(hs).urls \o Due(Tail(hs))

RangeLength ==
  IF args.start_page <= args.end_page THEN args.end_page - args.start_page + 1 ELSE 0

\* C15: in a page-range run the pages are harvested in order from start_page,
\* the extraction wrapper is called for the kept URLs of each harvested page in
\* order, and when the run leaves the loops every page of [start_page,
\* end_page] was harvested and every kept URL of every page was attempted,
\* whatever failed on the way; no error reaches main().
RangeVisitsAll ==
  mode = "range" =>
     /\ harvested = [k \in 1..Len(harvested) |-> args.start_page + k - 1]
     /\ \A k \in DOMAIN harvests : harvests[k].page = args.start_page + k - 1
     /\ IsPrefix(attempted, Due(harvests))
     /\ ~main_error
     /\ pc \in {"save", "quit", "done"} =>
           /\ Len(harvested) = RangeLength
           /\ Len(harvests) = RangeLength
           /\ attempted = Due(harvests)

\* A finished run over two pages: the harvest of the first page was given up,
\* the second page gave two URLs, the first of them was given up and the
\* second was still extracted.
RangeVisitsAllWitness ==
  /\ mode = "range" /\ pc = "done"
  /\ Len(harvests) = 2
  /\ harvests[1].links = <<>>
  /\ harvests[2].urls = <<U1, U2>>
  /\ attempted = <<U1, U2>>
  /\ FailuresOf(U1) # {}
  /\ all_src = <<U2>>

\* C16: a retry run whose failure file is unreadable or malformed ends with an
\* error raised to main(), with no extraction attempted and no output file
\* written.
BadFileAborts ==
  (mode = "retry" /\ pc = "done" /\ ~WellFormedFile) =>
     /\ main_error
     /\ attempted = <<>>
     /\ files = NoFiles

\* The status the process ends with: main() catches every Exception, calls no
\* exit function and returns None, in every mode and after every outcome.
ExitStatus == 0

\* The run failed as a whole: an error reached main(), or a validation run
\* found no page available.
SystemicFailure ==
  \/ main_error
  \/ mode = "validate" /\ available_pages = <<>>

\* C17: a run that failed as a whole ends with a nonzero exit status.
ExitStatusReflectsFailure ==
  (pc = "done" /\ SystemicFailure) => ExitStatus # 0

\* The hrefs of a listing page in the order the loops meet them: those of the
\* selectors one after the other that pass the first test or, when there are
\* none, those of all anchors that pass the second.
RECURSIVE Flat(_)
Flat(seqs) == IF seqs = <<>> THEN <<>> ELSE Head(seqs) \o Flat(Tail(seqs))

Discovered(page) ==
  LET bySelector == SelectSeq(Flat(page.sel), LAMBDA h : h # "" /\ IsCollectionHref(h))
  IN  IF ~page.load THEN <<>>
      ELSE IF bySelector # <<>> THEN bySelector
      ELSE SelectSeq(page.anchors, LAMBDA h : h # "" /\ IsItemHref(h))

NoDuplicates(seq) == \A i, j \in DOMAIN seq : seq[i] = seq[j] => i = j

\* seq without the later occurrences of its elements.
FirstSeen(seq) ==
  Pick(seq, {i \in DOMAIN seq : \A j \in 1..(i - 1) : seq[j] # seq[i]}, 1)

\* C18: the links a harvest returns for a page are the hrefs discovered on the
\* page it was shown, each once, in the order of their first occurrence; the
\* URLs kept are free of duplicates too, and the extractions of a crawl are
\* those of the kept URLs page by page, so no URL is extracted twice within a
\* page.  The first conjunct is about the function on every listing page and
\* is evaluated once per run, where main() begins.
HarvestDeduplicated ==
  /\ pc = "main" =>
        \A n \in ListingNames :
           /\ PageLinks[n] = FirstSeen(Discovered(Listing[n]))
           /\ NoDuplicates(PageLinks[n])
  /\ \A k \in DOMAIN harvests :
        /\ \E n \in ListingNames : harvests[k].links = PageLinks[n]
        /\ NoDuplicates(harvests[k].links)
        /\ NoDuplicates(harvests[k].urls)
  /\ mode \in {"range", "single"} => IsPrefix(attempted, Due(harvests))

\* A finished run over two pages: the first showed U1 and U2 several times, the
\* second showed U2 twice among all its anchors; each page's URLs were
\* extracted once.
HarvestDeduplicatedWitness ==
  /\ mode = "range" /\ pc = "done"
  /\ Len(harvests) = 2
  /\ harvests[1].links = <<U1, U2>>
  /\ harvests[2].links = <<U2>>
  /\ IsNone(args.records_per_page)
  /\ attempted = <<U1, U2, U2>>

\* The first min(k, Len(links)) links when the cap is k > 0, else all of them.
FirstUpTo(links, cap) ==
  IF IsNone(cap) \/ Val(cap) <= 0 THEN links
  ELSE [i \in 1..(IF Val(cap) < Len(links) THEN Val(cap) ELSE Len(links)) |-> links[i]]

\* C19: in a page-range run the URLs kept of each harvested page are its first
\* min(k, number harvested) links when --records-per-page is k > 0 and all of
\* its links otherwise; extraction is attempted for the kept URLs in order and
\* for no other, and for all of them by the time the loops are left.
RangeCapApplied ==
  mode = "range" =>
     /\ \A k \in DOMAIN harvests :
           harvests[k].urls = FirstUpTo(harvests[k].links, args.records_per_page)
     /\ \A k \in DOMAIN attempted :
           k <= Len(Due(harvests)) /\ attempted[k] = Due(harvests)[k]
     /\ pc \in {"save", "quit", "done"} => Len(attempted) = Len(Due(harvests))

\* A finished run with --records-per-page 1 whose page gave two links: only
\* the first was extracted.
RangeCapAppliedWitness ==
  /\ mode = "range" /\ pc = "done"
  /\ args.records_per_page = Some(1)
  /\ Len(harvests) = 1
  /\ harvests[1].links = <<U1, U2>>
  /\ attempted = <<U1>>

\* C20: a single-page run keeps of the harvested links what a page-range run
\* over that one page keeps of them under the same --records-per-page, and
\* attempts those URLs.
SinglePageAsRange ==
  mode = "single" =>
     /\ \A k \in DOMAIN harvests :
           harvests[k].urls = FirstUpTo(harvests[k].links, args.records_per_page)
     /\ pc = "done" => attempted = Due(harvests)

(* ------------------------------------------------------------------ *)
(* The cascade of strategies (SpecExtract)                             *)
(* ------------------------------------------------------------------ *)
\* The fields of a record that count toward acceptance.
FieldCount(record) == Cardinality(DOMAIN record \ {"Image URL"})

\* C21: the pattern strategy and the DOM strategy are invoked only while the
\* record built so far has fewer than 2 fields.
LaterStrategyBelowThreshold ==
  xst.pc \in {"pattern", "dom"} => FieldCount(xst.record) < 2

\* C22: the fields recovered from the embedded state of a page are in the
\* record the call returns, whether or not the fallback strategies ran.
StateFieldsSurvive ==
  (xst.pc = "return" /\ xst.view.load /\ xst.view.shape = "ok") =>
     \A label \in Labels(xst.view.fields) :
        /\ label \in DOMAIN xst.result
        /\ xst.result[label] = xst.view.fields[LastOf(xst.view.fields, label)].value

(* ------------------------------------------------------------------ *)
(* The selectors of link harvesting (Spec)                             *)
(* ------------------------------------------------------------------ *)
\* The links of the first selector that yields any.
RECURSIVE FirstYielding(_)
FirstYielding(sel) ==
  IF sel = <<>> THEN <<>>
  ELSE LET links == AppendNew(<<>>, Head(sel), FALSE) IN
       IF links # <<>> THEN links ELSE FirstYielding(Tail(sel))

\* C23: the links a harvest returns are those of the first selector that
\* yields any on the page shown, or those of the scan of all anchors when no
\* selector yields a link.
FirstSelectorOnly ==
  \A k \in DOMAIN harvests :
     \E n \in ListingNames :
        harvests[k].links =
           IF ~Listing[n].load THEN <<>>
           ELSE IF FirstYielding(Listing[n].sel) # <<>>
           THEN FirstYielding(Listing[n].sel)
           ELSE AppendNew(<<>>, Listing[n].anchors, TRUE)

(* ------------------------------------------------------------------ *)
(* The image of a record (SpecExtract)                                 *)
(* ------------------------------------------------------------------ *)
\* The markers of decorative assets.
DecorativeMarkers == {"logo", "icon", "favicon", "thumbnail", "sprite", "avatar"}

\* C24: the "Image URL" of a returned record contains no marker of a
\* decorative asset and contains an image indicator.
NoDecorativeImage ==
  (xst.pc = "return" /\ "Image URL" \in DOMAIN xst.result) =>
     LET url_lower == ToLower(xst.result["Image URL"]) IN
     /\ \A marker \in DecorativeMarkers : ~Contains(url_lower, marker)
     /\ \E indicator \in image_indicators : Contains(url_lower, indicator)

(* ------------------------------------------------------------------ *)
(* An embedded state that cannot be used (SpecExtract)                 *)
(* ------------------------------------------------------------------ *)
\* The shapes of an embedded state that is malformed or cannot be walked.
UnusableShapes == {"malformed", "noitem", "noparent", "nofields", "badtype"}

\* C25: on a page that loads with an embedded state that is malformed or cannot
\* be walked, the call runs the fallback strategies and returns what it
\* returns for the same page without embedded state.
UnusableStateFallsBack ==
  (xst.pc = "return" /\ xst.view.load /\ xst.view.shape \in UnusableShapes) =>
     /\ \E k \in DOMAIN xst.calls : xst.calls[k] = "section"
     /\ xst.result = extract_description_data([xst.view EXCEPT !.shape = "absent"])

(* ------------------------------------------------------------------ *)
(* What is on disk while a crawl runs (Spec)                           *)
(* ------------------------------------------------------------------ *)
\* C26: when a page-range run starts on a page after its first, every record
\* accepted on the pages before it is in the data file.
EarlierPagesFlushed ==
  (mode = "range" /\ pc = "harvest" /\ page_num > args.start_page) =>
     \A k \in DOMAIN all_data : all_data[k] \in RecordsIn(files, "data")

(* ------------------------------------------------------------------ *)
(* The browser session (Spec)                                          *)
(* ------------------------------------------------------------------ *)
\* main() has ended, by returning or by an interrupt.
Ended == pc \in {"done", "interrupted"}

\* The calls made on the browser session so far.
Navigations == <<visited, harvested, attempted, op>>

\* C27: the session __init__ opened is the one every navigation uses; a step
\* that navigates finds it open; once quit it stays quit and no navigation
\* follows; and every step that ends main(), after a normal run, after an error
\* raised to main() or after an interrupt, leaves it quit.
SessionScoped ==
  [][ /\ (Navigations' # Navigations) => (driver = "open" /\ driver' = "open")
      /\ (driver = "quit") => (driver' = "quit" /\ Navigations' = Navigations)
      /\ Ended' => driver' = "quit"
      /\ (driver' = "quit") => Ended'
    ]_vars

\* A run interrupted after it had navigated to a listing page and to a detail
\* page: the session was quit.
SessionScopedWitness ==
  /\ pc = "interrupted"
  /\ driver = "quit"
  /\ harvested # <<>>
  /\ attempted # <<>>
  /\ IsNone(files.data)

(* ------------------------------------------------------------------ *)
(* scrape_with_validation (SpecValidated)                              *)
(* ------------------------------------------------------------------ *)
\* C28: the pages scrape_with_validation harvests for scraping are pages that
\* validation found available, and when none is available nothing is harvested
\* or extracted.
ScrapesAvailableOnly ==
  /\ \A k \in DOMAIN harvests :
        \E j \in DOMAIN available_pages : available_pages[j].page_num = harvests[k].page
  /\ available_pages = <<>> => attempted = <<>>

(* ------------------------------------------------------------------ *)
(* The outcome of each wrapped extraction (Spec)                       *)
(* ------------------------------------------------------------------ *)
\* The calls of retry_extract_description_data that have returned.
Processed ==
  IF op.kind = "extract" /\ ~op.done THEN Len(attempted) - 1 ELSE Len(attempted)

\* C29: every call of the extraction wrapper that has returned left either one
\* record in all_data or one entry in failed_entries: the two lists together
\* are as long as the number of URLs processed, the call that has just
\* returned is the last of the list of its outcome, and current_id is
\* len(all_data) + 1.
OneOutcome ==
  /\ Len(all_data) + Len(failed_entries) = Processed
  /\ Len(all_src) = Len(all_data)
  /\ current_id = Len(all_data) + 1
  /\ (op.kind = "extract" /\ op.done /\ op.ok) => all_src[Len(all_src)] = op.url
  /\ (op.kind = "extract" /\ op.done /\ ~op.ok) =>
        failed_entries[Len(failed_entries)].url = op.url

\* Three URLs processed in a run: one record, then a failure, then a record.
OneOutcomeWitness ==
  /\ Len(attempted) = 3
  /\ op.kind = "extract" /\ op.done /\ op.ok
  /\ Len(all_data) = 2
  /\ Len(failed_entries) = 1
  /\ all_src = <<attempted[1], attempted[3]>>
  /\ failed_entries[1].url = attempted[2]

(* ------------------------------------------------------------------ *)
(* The mode main() runs and what it writes (Spec)                      *)
(* ------------------------------------------------------------------ *)
\* The branch of lines 888-910 a command line selects.
ModeOf(a) ==
  IF a.retry_failed THEN "retry"
  ELSE IF Truthy(a.single_page) THEN "single"
  ELSE IF a.validate_only THEN "validate"
  ELSE "range"

\* C30: main() runs the one mode the flags select by precedence, and when it
\* has ended every record of all_data is in a file written by the run and so
\* is every failure the run recorded.
AccumulatedWritten ==
  /\ pc # "main" => mode = ModeOf(args)
  /\ pc = "done" =>
        /\ all_data # <<>> =>
              \/ files.data = Some(all_data)
              \/ files.retry_ok = Some(all_data)
        /\ failed_entries # <<>> =>
              \/ files.failed = Some(failed_entries)
              \/ mode = "retry" /\ files.retry_failed = Some(still_failed)

====
